---- MODULE Spec2Model ----
(***************************************************************************)
(* Model of the Frechet ChemblNet Distance pipeline of fcd/FCD.py:         *)
(*   get_one_hot                 the SMILES tokenizer / one-hot encoder    *)
(*   predict_my_generator        the cyclic batch feeder (a generator)     *)
(*   get_predictions             the embedding extractor driving it        *)
(*   calculate_frechet_distance  the stabilised distance calculator        *)
(*                                                                         *)
(* A Python string is a sequence of one-character strings; Python's        *)
(* 0-based index k is position k+1 of the sequence.  A numpy 0/1 matrix is *)
(* a function from the 0-based row number to the set of columns holding 1. *)
(***************************************************************************)
EXTENDS Integers, Sequences, FiniteSets, TLC

VARIABLES enc, gen, fd

vars == <<enc, gen, fd>>

Min(a, b) == IF a <= b THEN a ELSE b

Max(a, b) == IF a >= b THEN a ELSE b

\* ceil(a / b) for a >= 0, b >= 1
Ceil(a, b) == (a + b - 1) \div b

(***************************************************************************)
(* get_one_hot                                                             *)
(***************************************************************************)

\* the vocabulary list of get_one_hot, in its order
one_hot ==
  << <<"C">>, <<"N">>, <<"O">>, <<"H">>, <<"F">>, <<"C", "l">>, <<"P">>,
     <<"B">>, <<"B", "r">>, <<"S">>, <<"I">>, <<"S", "i">>, <<"#">>, <<"(">>,
     <<")">>, <<"+">>, <<"-">>, <<"1">>, <<"2">>, <<"3">>, <<"4">>, <<"5">>,
     <<"6">>, <<"7">>, <<"8">>, <<"=">>, <<"[">>, <<"]">>, <<"@">>, <<"c">>,
     <<"n">>, <<"o">>, <<"s">>, <<"X">>, <<".">> >>

\* sym in one_hot
InVocab(sym) == \E k \in 1..Len(one_hot) : one_hot[k] = sym

\* one_hot.index(sym), 0-based
Index(sym) == (CHOOSE k \in 1..Len(one_hot) : one_hot[k] = sym) - 1

\* the second characters that make the scan take two characters
SecondChars == {"r", "i", "l"}

\* the value of the local sym before its first assignment
Unbound == <<>>

\* np.zeros((rows, len(one_hot)))
Zeros(rows) == [r \in 0..(rows - 1) |-> {}]

\* number of rows of a matrix
Rows(vec) == Cardinality(DOMAIN vec)

\* get_one_hot up to the loop: the sentinel, the zero matrix, the counters.
\* reads and tokens are history: the indices of smiles the scan has asked
\* for, and the symbols it has written.
OneHotStart(s, pad_len) ==
  LET smiles == Append(s, ".")
  IN  [ smiles  |-> smiles,
        pad_len |-> pad_len,
        vec     |-> IF pad_len < 0 THEN Zeros(Len(smiles)) ELSE Zeros(pad_len),
        cont    |-> TRUE,
        j       |-> 0,
        i       |-> 0,
        sym     |-> Unbound,
        pc      |-> "loop",
        reads   |-> {},
        tokens  |-> << >> ]

\* the scan of one token (the try block): smiles[i + 1] raises IndexError past
\* the end, and the bare except then leaves sym and i as they were
ScanTwo(st) ==
  st.i + 1 < Len(st.smiles) /\ st.smiles[st.i + 2] \in SecondChars

ScanSym(st) ==
  IF st.i + 1 >= Len(st.smiles) THEN st.sym
  ELSE IF ScanTwo(st)
       THEN SubSeq(st.smiles, st.i + 1, st.i + 2)
       ELSE <<st.smiles[st.i + 1]>>

ScanNext(st) ==
  IF st.i + 1 >= Len(st.smiles) THEN st.i
  ELSE IF ScanTwo(st) THEN st.i + 2 ELSE st.i + 1

\* the column a symbol sets: its own, or the wildcard's
Column(sym) == IF InVocab(sym) THEN Index(sym) ELSE Index(<<"X">>)

\* the stop test: smiles[i] == "." or j >= (pad_len - 1) and pad_len > 0
StopTest(smiles, i, j, pad_len) ==
  smiles[i + 1] = "." \/ (j >= pad_len - 1 /\ pad_len > 0)

\* one iteration of the while loop
OneHotLoop(st) ==
  LET sym   == ScanSym(st)
      i1    == ScanNext(st)
      rd1   == st.reads \cup {st.i + 1}
      j1    == st.j + 1
      vec1  == [st.vec EXCEPT ![st.j] = @ \cup {Column(sym)}]
      toks1 == Append(st.tokens, sym)
  IN  IF sym = Unbound
        THEN [st EXCEPT !.pc = "UnboundLocalError", !.reads = rd1]
      ELSE IF st.j >= Rows(st.vec)
        THEN [st EXCEPT !.pc = "IndexError", !.sym = sym, !.i = i1,
                        !.reads = rd1]
      ELSE IF i1 >= Len(st.smiles)
        THEN [st EXCEPT !.pc = "IndexError", !.sym = sym, !.i = i1,
                        !.vec = vec1, !.j = j1, !.tokens = toks1,
                        !.reads = rd1 \cup {i1}]
      ELSE IF ~StopTest(st.smiles, i1, j1, st.pad_len)
        THEN [st EXCEPT !.sym = sym, !.i = i1, !.vec = vec1, !.j = j1,
                        !.tokens = toks1, !.reads = rd1 \cup {i1}]
      ELSE IF j1 >= Rows(vec1)
        THEN [st EXCEPT !.pc = "IndexError", !.sym = sym, !.i = i1,
                        !.vec = vec1, !.j = j1, !.tokens = toks1,
                        !.reads = rd1 \cup {i1}]
      ELSE [st EXCEPT !.pc = "returned", !.cont = FALSE, !.sym = sym,
                      !.i = i1, !.j = j1, !.tokens = toks1,
                      !.reads = rd1 \cup {i1},
                      !.vec = [vec1 EXCEPT ![j1] = @ \cup {Index(<<".">>)}]]

RECURSIVE OneHotRun(_)
OneHotRun(st) == IF st.pc # "loop" THEN st ELSE OneHotRun(OneHotLoop(st))

\* the whole call: its final state (pc says returned or which error)
get_one_hot(s, pad_len) == OneHotRun(OneHotStart(s, pad_len))

\* ---- inputs of the encoder ----
MaxLen == 3

MaxPad == 4

Alphabet == {"C", "l", "r", ".", "Z"}

RECURSIVE StringsUpTo(_)
StringsUpTo(n) ==
  IF n = 0 THEN {<< >>}
  ELSE LET shorter == StringsUpTo(n - 1)
       IN  shorter \cup {Append(s, c) : s \in {t \in shorter : Len(t) = n - 1},
                                          c \in Alphabet}

PadLens == {-1} \cup (0..MaxPad)

EncIdle == [pc |-> "idle"]

GenIdle == [pc |-> "idle"]

FdIdle == [pc |-> "idle"]

EncInit ==
  /\ \E s \in StringsUpTo(MaxLen), p \in PadLens : enc = OneHotStart(s, p)
  /\ gen = GenIdle
  /\ fd = FdIdle

EncLoop ==
  /\ enc.pc = "loop"
  /\ enc' = OneHotLoop(enc)
  /\ UNCHANGED <<gen, fd>>

EncNext == EncLoop

SpecEnc == EncInit /\ [][EncNext]_vars

\* ---- what the encoder claims speak of ----
EncErrors == {"UnboundLocalError", "IndexError"}

TermIdx == Index(<<".">>)

WildIdx == Index(<<"X">>)

\* the rows of a matrix that have the terminator column set
TermRows(vec) == {r \in DOMAIN vec : TermIdx \in vec[r]}

\* the input string of a call: smiles without the appended sentinel
InputOf(st) == SubSeq(st.smiles, 1, Len(st.smiles) - 1)

IsPrefix(a, b) == Len(a) <= Len(b) /\ SubSeq(b, 1, Len(a)) = a

\* the two-letter atoms of the vocabulary: Cl, Br, Si
TwoLetterAtoms == {one_hot[k] : k \in {n \in 1..Len(one_hot) : Len(one_hot[n]) = 2}}

\* the tokenization the specification describes: two characters exactly when
\* they form a two-letter atom of the vocabulary, one character otherwise
RECURSIVE RefTokens(_)
RefTokens(s) ==
  IF s = << >> THEN << >>
  ELSE IF Len(s) >= 2 /\ SubSeq(s, 1, 2) \in TwoLetterAtoms
       THEN <<SubSeq(s, 1, 2)>> \o RefTokens(SubSeq(s, 3, Len(s)))
       ELSE <<SubSeq(s, 1, 1)>> \o RefTokens(SubSeq(s, 2, Len(s)))

\* the number of tokens of a string under the scan rule of the loop
RECURSIVE TokenCount(_)
TokenCount(s) ==
  IF s = << >> THEN 0
  ELSE IF Len(s) >= 2 /\ s[2] \in SecondChars
       THEN 1 + TokenCount(SubSeq(s, 3, Len(s)))
       ELSE 1 + TokenCount(SubSeq(s, 2, Len(s)))

\* C1: for every string and every padded_length >= 2 the call returns a
\* matrix of exactly padded_length rows with exactly one terminator row, and
\* the scan never asks for an index past the sentinel-appended string.
C1_LengthSafe ==
  (enc.pc # "idle" /\ enc.pad_len >= 2) =>
     /\ enc.reads \subseteq 0..(Len(enc.smiles) - 1)
     /\ enc.pc \notin EncErrors
     /\ enc.pc = "returned" =>
          /\ Rows(enc.vec) = enc.pad_len
          /\ Cardinality(TermRows(enc.vec)) = 1

\* C4: for every string and every padded_length that is negative or >= 2 the
\* call never raises, and every consumed token outside the vocabulary sets
\* the wildcard column, and only it, in its row.
C4_UnknownToWildcard ==
  (enc.pc # "idle" /\ (enc.pad_len < 0 \/ enc.pad_len >= 2)) =>
     /\ enc.pc \notin EncErrors
     /\ \A k \in 1..Len(enc.tokens) :
          ~InVocab(enc.tokens[k]) => enc.vec[k - 1] = {WildIdx}

\* C7: the tokens written are those of the specified scan: two characters
\* are taken as one token exactly when they form Cl, Br or Si.
C7_TwoCharOnlyForAtoms ==
  enc.pc # "idle" =>
     /\ \A k \in 1..Len(enc.tokens) :
          Len(enc.tokens[k]) = 2 <=> enc.tokens[k] \in TwoLetterAtoms
     /\ IsPrefix(enc.tokens, RefTokens(enc.smiles))

\* C10: with T the number of tokens of the input: for padded_length L >= 2
\* the first min(T, L-1) tokens fill rows 0..min(T, L-1)-1, the terminator is
\* in row min(T, L-1) and every later row is zero; for a negative
\* padded_length the loop stops on the sentinel only, the matrix has
\* len(input)+1 rows and the terminator is in row T.
C10_TerminatorPlacement ==
  (enc.pc \notin {"idle", "loop"}) =>
     LET T == TokenCount(InputOf(enc))
         L == enc.pad_len
         m == Min(T, L - 1)
     IN  /\ L >= 2 =>
              /\ enc.pc = "returned"
              /\ \A r \in 0..(m - 1) : enc.vec[r] = {Column(enc.tokens[r + 1])}
              /\ enc.vec[m] = {TermIdx}
              /\ \A r \in (m + 1)..(L - 1) : enc.vec[r] = {}
         /\ L < 0 =>
              /\ enc.pc = "returned"
              /\ enc.smiles[enc.i + 1] = "."
              /\ Rows(enc.vec) = Len(InputOf(enc)) + 1
              /\ TermRows(enc.vec) = {T}

\* Supporting facts about the encoder, on the inputs that are not the empty
\* string and do not hold the terminator character themselves.
PlainInput(st) ==
  LET s == InputOf(st) IN s # << >> /\ \A k \in 1..Len(s) : s[k] # "."

EncSafeOnPlainInput ==
  (enc.pc # "idle" /\ PlainInput(enc) /\ (enc.pad_len < 0 \/ enc.pad_len >= 2)) =>
     /\ enc.pc \notin EncErrors
     /\ enc.reads \subseteq 0..(Len(enc.smiles) - 1)
     /\ enc.pc = "returned" => Cardinality(TermRows(enc.vec)) = 1

\* Supporting facts: apart from the empty string the call never raises and
\* unknown tokens go to the wildcard; on plain inputs the terminator is
\* placed as C10 says.
EncWildcardOnNonEmpty ==
  (enc.pc # "idle" /\ InputOf(enc) # << >>) => C4_UnknownToWildcard

EncPlacementOnPlainInput ==
  (enc.pc # "idle" /\ PlainInput(enc)) => C10_TerminatorPlacement

(***************************************************************************)
(* predict_my_generator and get_predictions                                *)
(***************************************************************************)

\* the constant every element of a batch is divided by
Scale == 35

\* batch_size of get_predictions: the generator's and the step count's
PredictBatch == 128

PredictSteps == 128

\* the default pad_len of predict_my_generator
DefaultPadLen == 350

\* idx_samples[j * batch_size : min((j + 1) * batch_size, num_smls)], the
\* 0-based positions of one group
GroupIdx(j, batch_size, num_smls) ==
  LET lo == j * batch_size
      hi == Min((j + 1) * batch_size, num_smls)
  IN  [k \in 1..Max(hi - lo, 0) |-> lo + k - 1]

\* range(int(np.ceil(num_smls / batch_size)))
NumGroups(num_smls, batch_size) == Ceil(num_smls, batch_size)

\* the calls get_one_hot(smiles_list[idx[i]], pad_len=nn) of one group
GroupCalls(smiles_list, idx, nn) ==
  [k \in 1..Len(idx) |-> get_one_hot(smiles_list[idx[k] + 1], nn)]

\* np.asarray(x) / 35.0: the stacked matrices and what they are divided by
Stack(calls) == [x |-> [k \in 1..Len(calls) |-> calls[k].vec], div |-> Scale]

\* the external embedding model on one batch: one row per molecule of the
\* batch, in the batch's order, each a function of that molecule's matrix
\* alone (here: the cells of the matrix that are set)
Activation(vec) == {<<r, c>> \in (DOMAIN vec) \X (0..(Len(one_hot) - 1)) : c \in vec[r]}

PredictOnBatch(batch) == [k \in 1..Len(batch.x) |-> Activation(batch.x[k])]

\* a generator object just created, and its consumer.  steps is how many
\* batches the consumer will ask for; out is what it has collected.
GenStart(smiles_list, batch_size, pad_len, steps) ==
  [ smiles_list |-> smiles_list,
    batch_size  |-> batch_size,
    pad_len     |-> pad_len,
    pc          |-> "while",
    j           |-> 0,
    idx         |-> << >>,
    batch       |-> Stack(<< >>),
    yields      |-> 0,
    cpc         |-> "ready",
    steps       |-> steps,
    pulled      |-> 0,
    out         |-> << >>,
    src         |-> << >> ]

\* get_predictions: the generator with batch_size=128 and the default
\* pad_len, driven for np.ceil(len(gen_mol) / 128) steps
get_predictions(gen_mol) ==
  GenStart(gen_mol, PredictBatch, DefaultPadLen, Ceil(Len(gen_mol), PredictSteps))

\* the consumer asks for the next batch; a generator suspended at its yield
\* resumes in the for loop with the next j
GenRequest ==
  /\ gen.pc # "idle"
  /\ gen.cpc = "ready"
  /\ gen.pulled < gen.steps
  /\ gen' = IF gen.pc = "yield"
              THEN [gen EXCEPT !.cpc = "waiting", !.pc = "for", !.j = @ + 1]
              ELSE [gen EXCEPT !.cpc = "waiting"]
  /\ UNCHANGED <<enc, fd>>

\* the consumer has had its steps and stops asking
GenStop ==
  /\ gen.pc # "idle"
  /\ gen.cpc = "ready"
  /\ gen.pulled >= gen.steps
  /\ gen' = [gen EXCEPT !.cpc = "done"]
  /\ UNCHANGED <<enc, fd>>

\* while 1: the head of a pass
GenWhile ==
  /\ gen.pc = "while"
  /\ gen.cpc = "waiting"
  /\ gen' = [gen EXCEPT !.pc = "for", !.j = 0]
  /\ UNCHANGED <<enc, fd>>

\* one turn of the for loop: the pass is over, or the group is encoded and
\* yielded, or an encoding raises and the generator dies with it
GenFor ==
  /\ gen.pc = "for"
  /\ gen.cpc = "waiting"
  /\ LET num_smls == Len(gen.smiles_list)
         idx      == GroupIdx(gen.j, gen.batch_size, num_smls)
         calls    == GroupCalls(gen.smiles_list, idx, gen.pad_len)
     IN  gen' =
           IF gen.j >= NumGroups(num_smls, gen.batch_size)
             THEN [gen EXCEPT !.pc = "while"]
           ELSE IF \E k \in 1..Len(calls) : calls[k].pc # "returned"
             THEN [gen EXCEPT !.pc = "raised", !.cpc = "failed", !.idx = idx]
           ELSE [gen EXCEPT !.pc = "yield", !.cpc = "got", !.idx = idx,
                            !.batch = Stack(calls), !.yields = @ + 1]
  /\ UNCHANGED <<enc, fd>>

\* the consumer takes the batch it was handed: the model's rows for it are
\* appended to the output (src: the positions they came from)
GenCollect ==
  /\ gen.pc # "idle"
  /\ gen.cpc = "got"
  /\ gen' = [gen EXCEPT !.cpc = "ready", !.pulled = @ + 1,
                        !.out = @ \o PredictOnBatch(gen.batch),
                        !.src = @ \o gen.idx]
  /\ UNCHANGED <<enc, fd>>

\* ---- inputs of the feeder ----
MaxMols == 3

MaxBatch == 3

MaxPulls == 5

Molecules == {<< >>, <<"C">>, <<"C", "l", "C">>}

RECURSIVE ListsUpTo(_)
ListsUpTo(n) ==
  IF n = 0 THEN {<< >>}
  ELSE LET shorter == ListsUpTo(n - 1)
       IN  shorter \cup {Append(l, m) : l \in {t \in shorter : Len(t) = n - 1},
                                          m \in Molecules}

\* the molecule lists get_predictions is given: the lengths around one and
\* two batches, the molecules repeating a pattern
PredictLens == {0, 1, 127, 128, 129, 150, 256, 257}

Patterns == {<< <<"C">> >>, << <<"C">>, <<"C", "l", "C">> >>,
             << << >>, <<"C">> >>}

PatternList(n, pat) == [k \in 1..n |-> pat[((k - 1) % Len(pat)) + 1]]

FeedInit ==
  /\ enc = EncIdle
  /\ fd = FdIdle
  /\ \E l \in ListsUpTo(MaxMols), b \in 1..MaxBatch, p \in 2..MaxPad :
        gen = GenStart(l, b, p, MaxPulls)

FeedNext == GenRequest \/ GenStop \/ GenWhile \/ GenFor \/ GenCollect

SpecFeed == FeedInit /\ [][FeedNext]_vars

\* the generator runs whenever it has been asked for a batch
FairFeed == SpecFeed /\ WF_vars(GenWhile) /\ WF_vars(GenFor)

PredictInit ==
  /\ enc = EncIdle
  /\ fd = FdIdle
  /\ \E n \in PredictLens, pat \in Patterns :
        gen = get_predictions(PatternList(n, pat))

SpecPredict == PredictInit /\ [][FeedNext]_vars

\* ---- what the feeder claims speak of ----

\* the positions [g*b, min((g+1)*b, n)) in ascending order
Positions(g, b, n) == [k \in 1..(Min((g + 1) * b, n) - g * b) |-> g * b + (k - 1)]

\* the matrix of one molecule
Encoding(mol, pad_len) == get_one_hot(mol, pad_len).vec

PlainList(l) == \A k \in 1..Len(l) : l[k] # << >>

\* the batch the generator has just yielded is group (yields - 1) mod G
YieldedIsGroup ==
  LET n == Len(gen.smiles_list)
      b == gen.batch_size
      G == Ceil(n, b)
      g == (gen.yields - 1) % G
      want == Positions(g, b, n)
  IN  /\ gen.idx = want
      /\ Len(gen.batch.x) = Len(want)
      /\ \A k \in 1..Len(want) :
            gen.batch.x[k] = Encoding(gen.smiles_list[want[k] + 1], gen.pad_len)
      /\ Len(gen.batch.x) >= 1
      /\ Len(gen.batch.x) <= b
      /\ (Len(gen.batch.x) < b => g = G - 1)

\* C3: for a list of n >= 1 molecules and batch_size b >= 1 the k-th batch
\* yielded is the stacked encoding of the molecules at the positions of group
\* k mod ceil(n/b), in list order: never empty, never larger than b, smaller
\* than b only for the last group of a pass, and the first group again after
\* the last.
C3_CyclicPartition ==
  (gen.pc # "idle" /\ Len(gen.smiles_list) >= 1) =>
     /\ gen.cpc # "failed"
     /\ gen.cpc = "got" => YieldedIsGroup

\* Supporting fact: the partition is as C3 says on the lists that hold no
\* empty molecule.
FeedPartitionOnPlainLists ==
  (gen.pc # "idle" /\ PlainList(gen.smiles_list)) =>
     /\ gen.cpc # "failed"
     /\ gen.cpc = "got" => YieldedIsGroup

\* C2: for every molecule list of length n, get_predictions pulls exactly
\* ceil(n / 128) batches, and they hold every molecule exactly once in input
\* order: n embedding rows, row k belonging to molecule k.
C2_BoundedOrdered ==
  gen.pc # "idle" =>
     LET n == Len(gen.smiles_list)
     IN  /\ gen.cpc # "failed"
         /\ gen.pulled <= Ceil(n, 128)
         /\ gen.cpc = "done" =>
              /\ gen.pulled = Ceil(n, 128)
              /\ gen.yields = Ceil(n, 128)
              /\ gen.src = [k \in 1..n |-> k - 1]
              /\ Len(gen.out) = n
              /\ \A k \in 1..n :
                    gen.out[k] = Activation(Encoding(gen.smiles_list[k], DefaultPadLen))

\* Supporting fact: C2 on the lists that hold no empty molecule.
PredictOrderedOnPlainLists ==
  (gen.pc # "idle" /\ PlainList(gen.smiles_list)) => C2_BoundedOrdered

\* C9: for every molecule list, the empty one included, every request for
\* the next batch is answered with a batch.
C9_EveryRequestAnswered == (gen.cpc = "waiting") ~> (gen.cpc = "got")

(***************************************************************************)
(* calculate_frechet_distance                                              *)
(*                                                                         *)
(* Arrays are known by their shapes.  What scipy's sqrtm returns is not    *)
(* computed: every matrix of the right dimension is a possible result,     *)
(* known by whether it is a complex object, where it holds a non-finite    *)
(* entry if anywhere, and the magnitude of each imaginary part in units of *)
(* 1e-4.                                                                   *)
(***************************************************************************)

\* atol=1e-3 of np.allclose, in units of 1e-4
Atol == 10

\* np.atleast_1d and np.atleast_2d on a shape
AtLeast1d(shape) == IF shape = << >> THEN <<1>> ELSE shape

AtLeast2d(shape) ==
  IF shape = << >> THEN <<1, 1>>
  ELSE IF Len(shape) = 1 THEN <<1, shape[1]>>
  ELSE shape

\* ShapeAssert without its second assertion
ShapeAssertMeansOnly(mu1, sigma1, mu2, sigma2) ==
  IF mu1 # mu2 THEN "Training and test mean vectors have different lengths"
  ELSE "ok"

\* the two assertions, in their order: the message of the one that fails
ShapeAssert(mu1, sigma1, mu2, sigma2) ==
  IF mu1 # mu2 THEN "Training and test mean vectors have different lengths"
  ELSE IF sigma1 # sigma2
       THEN "Training and test covariances have different dimensions"
       ELSE "ok"

\* sigma1.dot(sigma2) followed by sqrtm: numpy needs the inner dimensions to
\* agree and sqrtm needs a square matrix
CanSqrt(sigma1, sigma2) == sigma1[2] = sigma2[1] /\ sigma1[1] = sigma2[2]

Cells(d) == (1..d) \X (1..d)

ImagVals == {0, 10, 11}

\* where a result holds a non-finite entry
NonFinite(d, complex) ==
  {"none", "real"} \cup (IF complex THEN {"imag_diag"} ELSE {})
                   \cup (IF complex /\ d >= 2 THEN {"imag_off"} ELSE {})

\* the possible results of sqrtm on a d x d matrix
Roots(d) ==
  {[complex |-> FALSE, nonfin |-> nf, imag |-> [c \in Cells(d) |-> 0]] :
      nf \in NonFinite(d, FALSE)}
  \cup
  {[complex |-> TRUE, nonfin |-> nf, imag |-> im] :
      nf \in NonFinite(d, TRUE), im \in [Cells(d) -> ImagVals]}

\* np.isfinite(covmean).all()
IsFinite(cm) == cm.nonfin = "none"

\* the entries np.diagonal(covmean) takes
Diagonal(d) == {c \in Cells(d) : c[1] = c[2]}

\* DiagClose taken over every entry instead of the diagonal
AllClose(cm, d) ==
  /\ cm.nonfin \notin {"imag_diag", "imag_off"}
  /\ \A c \in Cells(d) : cm.imag[c] <= Atol

\* np.allclose(np.diagonal(covmean).imag, 0, atol=1e-3)
DiagClose(cm, d) ==
  /\ cm.nonfin # "imag_diag"
  /\ \A c \in Diagonal(d) : cm.imag[c] <= Atol

SetMax(S) == CHOOSE x \in S : \A y \in S : y <= x

\* np.max(np.abs(covmean.imag)): a non-finite value, or the largest magnitude
MaxImag(cm, d) ==
  [ finite |-> cm.nonfin \notin {"imag_diag", "imag_off"},
    mag    |-> SetMax({cm.imag[c] : c \in Cells(d)}) ]

\* covmean.real
RealPart(cm, d) ==
  [ complex |-> FALSE,
    nonfin  |-> IF cm.nonfin = "real" THEN "real" ELSE "none",
    imag    |-> [c \in Cells(d) |-> 0] ]

NoRoot == [complex |-> FALSE, nonfin |-> "none", imag |-> << >>]

\* the call at its first line.  work lists the numerical operations done so
\* far, warnings the warnings emitted, root the last result of sqrtm as it
\* was returned, first_finite whether the first one was finite.
FdStart(mu1, sigma1, mu2, sigma2) ==
  [ pc |-> "assert",
    mu1 |-> AtLeast1d(mu1), mu2 |-> AtLeast1d(mu2),
    sigma1 |-> AtLeast2d(sigma1), sigma2 |-> AtLeast2d(sigma2),
    covmean |-> NoRoot, root |-> NoRoot,
    first_finite |-> TRUE,
    offset |-> FALSE,
    work |-> << >>,
    warnings |-> << >>,
    error |-> "",
    m |-> [finite |-> TRUE, mag |-> 0],
    value |-> "none" ]

\* lines 58-63
FdAssert ==
  /\ fd.pc = "assert"
  /\ LET msg == ShapeAssert(fd.mu1, fd.sigma1, fd.mu2, fd.sigma2)
     IN  fd' = IF msg = "ok" THEN [fd EXCEPT !.pc = "diff"]
               ELSE [fd EXCEPT !.pc = "AssertionError", !.error = msg]
  /\ UNCHANGED <<enc, gen>>

\* line 65
FdDiff ==
  /\ fd.pc = "diff"
  /\ fd' = [fd EXCEPT !.pc = "sqrt", !.work = Append(@, "diff")]
  /\ UNCHANGED <<enc, gen>>

\* line 68, when numpy or scipy refuse the shapes
FdSqrtRefused ==
  /\ fd.pc = "sqrt"
  /\ ~CanSqrt(fd.sigma1, fd.sigma2)
  /\ fd' = [fd EXCEPT !.pc = "ValueError", !.error = "shapes",
                      !.work = Append(@, "dot")]
  /\ UNCHANGED <<enc, gen>>

\* line 68
FdSqrt ==
  /\ fd.pc = "sqrt"
  /\ CanSqrt(fd.sigma1, fd.sigma2)
  /\ \E cm \in Roots(fd.sigma1[1]) :
        fd' = [fd EXCEPT !.pc = "finite", !.covmean = cm, !.root = cm,
                         !.first_finite = IsFinite(cm),
                         !.work = @ \o <<"dot", "sqrtm">>]
  /\ UNCHANGED <<enc, gen>>

\* Regularize without the warning
RegularizeSilently(f, cm) ==
  [f EXCEPT !.pc = "complex", !.covmean = cm, !.root = cm, !.offset = TRUE,
            !.work = @ \o <<"dot", "sqrtm">>]

\* lines 69-76: the warning, the offset on both diagonals, the second sqrtm
Regularize(f, cm) ==
  [f EXCEPT !.pc = "complex", !.covmean = cm, !.root = cm, !.offset = TRUE,
            !.warnings = Append(@, "adding eps to diagonal of cov estimates"),
            !.work = @ \o <<"dot", "sqrtm">>]

FdFinite ==
  /\ fd.pc = "finite"
  /\ IF IsFinite(fd.covmean)
       THEN fd' = [fd EXCEPT !.pc = "complex"]
       ELSE \E cm \in Roots(fd.sigma1[1]) : fd' = Regularize(fd, cm)
  /\ UNCHANGED <<enc, gen>>

\* lines 79-83
ComplexCheck(f) ==
  LET d == f.sigma1[1]
  IN  IF ~f.covmean.complex THEN [f EXCEPT !.pc = "trace"]
      ELSE IF ~DiagClose(f.covmean, d)
        THEN [f EXCEPT !.pc = "ValueError", !.error = "Imaginary component",
                       !.m = MaxImag(f.covmean, d)]
      ELSE [f EXCEPT !.pc = "trace", !.covmean = RealPart(f.covmean, d)]

FdComplex ==
  /\ fd.pc = "complex"
  /\ fd' = ComplexCheck(fd)
  /\ UNCHANGED <<enc, gen>>

\* lines 85-87: the value is finite exactly when the real parts are
FdReturn ==
  /\ fd.pc = "trace"
  /\ fd' = [fd EXCEPT !.pc = "returned", !.work = Append(@, "trace"),
                      !.value = IF fd.covmean.nonfin = "real"
                                  THEN "nan" ELSE "finite"]
  /\ UNCHANGED <<enc, gen>>

\* ---- inputs of the calculator ----
MuShapes == {<< >>, <<1>>, <<3>>, <<4>>}

SigmaShapes == {<< >>, <<1, 1>>, <<2, 2>>, <<2, 3>>}

FdInit ==
  /\ enc = EncIdle
  /\ gen = GenIdle
  /\ \E m1 \in MuShapes, m2 \in MuShapes, s1 \in SigmaShapes, s2 \in SigmaShapes :
        fd = FdStart(m1, s1, m2, s2)

FdNext == FdAssert \/ FdDiff \/ FdSqrtRefused \/ FdSqrt \/ FdFinite
            \/ FdComplex \/ FdReturn

SpecFd == FdInit /\ [][FdNext]_vars

\* ---- what the calculator claims speak of ----
Count(seq, x) == Cardinality({k \in 1..Len(seq) : seq[k] = x})

\* some imaginary part of the root is not within 1e-3 of zero
SomeImagExceeds(cm, d) ==
  cm.nonfin \in {"imag_diag", "imag_off"} \/ \E c \in Cells(d) : cm.imag[c] > Atol

\* some imaginary part on the root's diagonal is not within 1e-3 of zero
DiagImagExceeds(cm, d) ==
  cm.nonfin = "imag_diag" \/ \E k \in 1..d : cm.imag[<<k, k>>] > Atol

FdPastFinite == fd.pc \in {"complex", "trace", "returned", "ValueError"}

FdPastComplex == fd.pc \in {"trace", "returned", "ValueError"}

\* C5 as claimed: once the first square root holds a non-finite entry, the
\* warning is emitted, eps is added, the root is recomputed, and the call
\* raises no error.
C5_RecoveryNeverAborts ==
  (fd.pc # "idle" /\ ~fd.first_finite) =>
     /\ fd.pc \notin {"ValueError", "AssertionError"}
     /\ FdPastFinite =>
          /\ Len(fd.warnings) = 1
          /\ fd.offset
          /\ Count(fd.work, "sqrtm") = 2

\* C5 as amended: once the first square root holds a non-finite entry, the
\* warning is emitted, eps is added and the root is recomputed; the call
\* then returns a value unless the recomputed root is a complex object whose
\* diagonal imaginary part is not within 1e-3 of zero, and only then it
\* raises ValueError.
C5_RecoveryAbortsOnlyOnResidual ==
  (fd.pc # "idle" /\ ~fd.first_finite /\ FdPastFinite) =>
     LET d == fd.sigma1[1]
         residual == fd.root.complex /\ DiagImagExceeds(fd.root, d)
     IN  /\ Len(fd.warnings) = 1
         /\ fd.offset
         /\ Count(fd.work, "sqrtm") = 2
         /\ fd.pc # "AssertionError"
         /\ fd.pc = "ValueError" => (residual /\ fd.error = "Imaginary component")
         /\ (FdPastComplex /\ ~residual) => fd.pc \in {"trace", "returned"}
         /\ fd.pc = "returned" => fd.value # "none"

C5_Witness ==
  /\ fd.pc = "returned"
  /\ ~fd.first_finite
  /\ Len(fd.warnings) = 1
  /\ fd.value = "finite"

\* C6: when the shapes of mu1 and mu2, or of sigma1 and sigma2, differ at the
\* assertions, the call fails there with the shape-mismatch error: no
\* difference, product, square root or trace has been computed, no warning
\* emitted and no value returned; when both pairs agree the error is not
\* raised.
C6_ShapeFailFast ==
  fd.pc # "idle" =>
     LET mismatch == fd.mu1 # fd.mu2 \/ fd.sigma1 # fd.sigma2
     IN  /\ mismatch =>
              /\ fd.pc \in {"assert", "AssertionError"}
              /\ fd.work = << >>
              /\ fd.warnings = << >>
              /\ fd.value = "none"
         /\ fd.pc = "AssertionError" =>
              fd.error \in {"Training and test mean vectors have different lengths",
                            "Training and test covariances have different dimensions"}
         /\ ~mismatch => fd.pc # "AssertionError"

C6_Witness ==
  /\ fd.pc = "AssertionError"
  /\ fd.mu1 = <<3>>
  /\ fd.mu2 = <<4>>
  /\ fd.work = << >>

\* C8 as claimed: a complex root with any imaginary part beyond 1e-3 makes
\* the call fail, reporting the largest imaginary magnitude; the imaginary
\* part is dropped only when every imaginary part is within 1e-3 of zero.
C8_AnyImaginaryEntryFails ==
  (fd.pc # "idle" /\ FdPastComplex /\ fd.root.complex) =>
     LET d == fd.sigma1[1]
     IN  /\ SomeImagExceeds(fd.root, d) => fd.pc = "ValueError"
         /\ fd.pc \in {"trace", "returned"} => ~SomeImagExceeds(fd.root, d)

\* C8 as amended: a complex root with an imaginary part beyond 1e-3 on its
\* diagonal makes the call fail, reporting the largest imaginary magnitude
\* of all entries; when every diagonal imaginary part is within 1e-3 of zero
\* the imaginary part is dropped and a real result returned, whatever the
\* imaginary parts off the diagonal are.
C8_DiagonalImaginaryFails ==
  (fd.pc # "idle" /\ FdPastComplex /\ fd.root.complex) =>
     LET d == fd.sigma1[1]
         all == {fd.root.imag[c] : c \in Cells(d)}
     IN  /\ DiagImagExceeds(fd.root, d) =>
              /\ fd.pc = "ValueError"
              /\ fd.error = "Imaginary component"
              /\ fd.m.finite = (fd.root.nonfin \notin {"imag_diag", "imag_off"})
              /\ fd.m.mag \in all
              /\ \A x \in all : x <= fd.m.mag
              /\ fd.value = "none"
         /\ ~DiagImagExceeds(fd.root, d) =>
              /\ fd.pc \in {"trace", "returned"}
              /\ ~fd.covmean.complex
              /\ \A c \in Cells(d) : fd.covmean.imag[c] = 0

C8_Witness ==
  /\ fd.pc = "returned"
  /\ fd.sigma1 = <<2, 2>>
  /\ fd.root.complex
  /\ fd.root.imag[<<1, 2>>] > Atol
  /\ fd.root.imag[<<1, 1>>] <= Atol
  /\ fd.root.imag[<<2, 2>>] <= Atol

====
